---- MODULE Spec2Model ----
(***************************************************************************)
(* One POST /chat request of the buy assistant: main.chat hands the        *)
(* payload's message to BuyAssistant.chat, which asks the chat model for   *)
(* a plan, matches every proposed category against the taxonomy index,     *)
(* fetches the listings of every distinct matched category id, builds one  *)
(* carousel per matched category and joins the plan's questions to it.     *)
(*                                                                         *)
(* Python strings that the code takes apart (the page_content of an index  *)
(* document) are sequences of tokens, "\n" being a token of its own; all   *)
(* other strings are opaque.  A Python dict whose keys may be missing is a *)
(* record with a field naming the keys it holds.  An exception that leaves *)
(* BuyAssistant.chat ends the request: pc = "failed" and error holds the   *)
(* step and the exception.                                                 *)
(***************************************************************************)
EXTENDS Integers, Sequences, FiniteSets, TLC

\* Longest plan the chat model replies with under Spec.
MaxProposals == 3
\* Longest plan the chat model replies with under SpecItems.
MaxItemProposals == 2
\* Longest results array the marketplace replies with under SpecItems.
MaxResults == 7

\* buy_assistant.py:37
ITEMS_BY_CAROUSEL == 5

VARIABLES
    pc,             \* the statement the request is at
    error,          \* <<>>, or <<step, exception>> once the request failed
    nearest,        \* the index: query -> taxonomy keys its k=1 search yields
    response,       \* <<>>, or <<the chat model's reply>>     (line 97)
    response_dict,  \* the parsed plan                         (line 99)
    i,              \* position of the matching loop in the plan
    categories,     \* the matched categories                  (line 103)
    fetch_queue,    \* what is left of iterating uq_category_ids (line 121)
    search_results, \* the fetched batches                     (line 120)
    carousels,      \* the carousels                           (line 141)
    returned,       \* <<>>, or <<what the handler returned>>
    vs_queries,     \* history: the queries sent to the index
    api_calls       \* history: the listing searches requested

vars == <<pc, error, nearest, response, response_dict, i, categories,
          fetch_queue, search_results, carousels, returned, vs_queries,
          api_calls>>

----------------------------------------------------------------------------
\* Sequences and sets

Range(s) == {s[k] : k \in DOMAIN s}

SeqsUpTo(S, n) == UNION {[1..m -> S] : m \in 0..n}

Min(a, b) == IF a <= b THEN a ELSE b

\* s[:n]
Take(s, n) == SubSeq(s, 1, Min(n, Len(s)))

\* All the orders in which the elements of S can be iterated.
Permutations_(S) ==
    {q \in [1..Cardinality(S) -> S] : \A a, b \in DOMAIN q : a # b => q[a] # q[b]}

----------------------------------------------------------------------------
\* The taxonomy index (Chroma collection MELI_CATEGORY_TREE)

ProposalNames == {"Licuadoras", "Ollas"}

\* The entries of the collection.  BATIDORAS shares the level-3 category of
\* LICUADORAS under another domain; SUELTA is a document with fewer lines.
TaxonomyKeys == {"LICUADORAS", "BATIDORAS", "OLLAS", "SUELTA"}

Taxonomy(key) ==
    CASE key = "LICUADORAS" ->
           [category_id |-> "MLA100", category_name |-> "Licuadoras",
            domain_id |-> "MLA-BLENDERS", lines |-> 8]
      [] key = "BATIDORAS" ->
           [category_id |-> "MLA100", category_name |-> "Licuadoras",
            domain_id |-> "MLA-MIXERS", lines |-> 8]
      [] key = "OLLAS" ->
           [category_id |-> "MLA200", category_name |-> "Ollas",
            domain_id |-> "MLA-MIXERS", lines |-> 8]
      [] OTHER ->
           [category_id |-> "MLA300", category_name |-> "Sueltos",
            domain_id |-> "MLA-LOOSE", lines |-> 5]

CategoryIds == {Taxonomy(k).category_id : k \in TaxonomyKeys}

\* The text of a document: one "LABEL: value" line per field, joined by "\n".
PageContent(key) ==
    LET e == Taxonomy(key)
        all == << <<"CATEGORY_ID_L1: ", "MLA1">>,
                  <<"CATEGORY_NAME_L1: ", "Hogar">>,
                  <<"CATEGORY_ID_L2: ", "MLA10">>,
                  <<"CATEGORY_NAME_L2: ", "Cocina">>,
                  <<"CATEGORY_ID_L3: ", e.category_id>>,
                  <<"CATEGORY_NAME_L3: ", e.category_name>>,
                  <<"DOMAIN_NAME: ", "dominio">>,
                  <<"DOMAIN_ID: ", e.domain_id>> >>
        Join[k \in 0..Len(all)] ==
            IF k = 0 THEN <<>>
            ELSE IF k = 1 THEN all[1]
            ELSE Join[k - 1] \o <<"\n">> \o all[k]
    IN Join[e.lines]

\* similarity_search_with_score(query, k=1): at most one (document, score).
SimilaritySearchWithScore(query) ==
    [j \in DOMAIN nearest[query] |->
        <<[page_content |-> PageContent(nearest[query][j])],
          IF Taxonomy(nearest[query][j]).category_name = query THEN 0 ELSE 1>>]

\* str.split(sep): the pieces between the separators, in order.
Split(s, sep) ==
    LET F[k \in 0..Len(s)] ==
            IF k = 0 THEN << <<>> >>
            ELSE LET before == F[k - 1]
                 IN IF s[k] = sep THEN Append(before, <<>>)
                    ELSE [before EXCEPT ![Len(before)] = Append(@, s[k])]
    IN F[Len(s)]

\* str.replace(old, ""): the string without its occurrences of old.
Replace(s, old) ==
    LET rest == SelectSeq(s, LAMBDA t : t # old)
    IN IF Len(rest) = 1 THEN rest[1] ELSE IF rest = <<>> THEN "" ELSE rest

----------------------------------------------------------------------------
\* Lines 104-115: one iteration of the matching loop

\* The dict of lines 107-113, or the exception of the try body: the error of
\* a search whose embedding request failed, or the IndexError that [0], [4],
\* [5] or [7] raises (Python indexes from 0).
TryResolve(category, embedded) ==
    LET found == SimilaritySearchWithScore(category) IN
    IF ~embedded THEN [ok |-> FALSE, exc |-> "OpenAIError"]
    ELSE IF Len(found) = 0 THEN [ok |-> FALSE, exc |-> "IndexError"]
    ELSE LET result == found[1]
             lines == Split(result[1].page_content, "\n")
         IN IF Len(lines) < 8 THEN [ok |-> FALSE, exc |-> "IndexError"]
            ELSE [ok |-> TRUE,
                  value |->
                    [category_raw |-> category,
                     category_id |-> Replace(lines[5], "CATEGORY_ID_L3: "),
                     category_name |-> Replace(lines[6], "CATEGORY_NAME_L3: "),
                     domain_id |-> Replace(lines[8], "DOMAIN_ID: "),
                     similarity_score |-> result[2]]]

\* A try statement that catches nothing.
CaughtInMatchNothing(exc) == FALSE

\* Line 114: what the try statement catches.
CaughtInMatch(exc) == exc = "IndexError"

\* The category ids as a list, one per matched category, without set().
IterationOrderOfList(cats) == {[k \in DOMAIN cats |-> cats[k].category_id]}

\* Line 119 and the iteration of line 121: the distinct category ids, in the
\* order the set happens to iterate them.
IterationOrders(cats) ==
    Permutations_({cats[k].category_id : k \in DOMAIN cats})

\* Where the request goes once the matching loop is over.
AfterMatch(order) == IF order = <<>> THEN "build" ELSE "fetch"

----------------------------------------------------------------------------
\* Lines 95-99: the chat model's reply and its parse

QuestionLists == {<<"q1", "q2">>, <<"q2", "q1">>}

Proposals == [name : ProposalNames, questions : QuestionLists]

\* What the chat model can answer: the call raises, the content is no JSON,
\* the JSON lacks a field of the schema, or it is a plan of up to n proposals.
Replies(n) ==
    {[raises |-> TRUE, json |-> FALSE, keys |-> {}, message |-> "",
      categories |-> <<>>],
     [raises |-> FALSE, json |-> FALSE, keys |-> {}, message |-> "",
      categories |-> <<>>],
     [raises |-> FALSE, json |-> TRUE, keys |-> {"message"},
      message |-> "hola", categories |-> <<>>]}
    \cup {[raises |-> FALSE, json |-> TRUE, keys |-> {"message", "categories"},
           message |-> "hola", categories |-> c] : c \in SeqsUpTo(Proposals, n)}

\* A parse that fills the fields a JSON reply lacks with empty values.
ParseLenient(content) ==
    IF content.json
    THEN [ok |-> TRUE,
          value |-> [message |-> IF "message" \in content.keys
                                 THEN content.message ELSE "",
                     categories |-> IF "categories" \in content.keys
                                    THEN content.categories ELSE <<>>]]
    ELSE [ok |-> FALSE, exc |-> "OutputParserException"]

\* The replies under Spec and under SpecItems.
PlanReplies == Replies(MaxProposals)

ItemReplies == Replies(MaxItemProposals)

\* PydanticOutputParser.parse into BuyAssistantResponse (lines 17-23, 98).
Parse(content) ==
    IF content.json /\ {"message", "categories"} \subseteq content.keys
    THEN [ok |-> TRUE,
          value |-> [message |-> content.message,
                     categories |-> content.categories]]
    ELSE [ok |-> FALSE, exc |-> "OutputParserException"]

\* Lines 73-82.
obj_to_dict(response_obj) ==
    [message |-> response_obj.message,
     categories |->
        [k \in DOMAIN response_obj.categories |->
            [name |-> response_obj.categories[k].name,
             questions |-> response_obj.categories[k].questions]]]

\* Line 104: the names of the plan's categories.
Names(plan) == [k \in DOMAIN plan.categories |-> plan.categories[k].name]

----------------------------------------------------------------------------
\* Lines 121-137: one listing search

\* A result of the marketplace: domain "" stands for a result that carries
\* nothing but its id.
RawResult(category_id, n, domain) ==
    [present |-> IF domain = "" THEN {"id"}
                 ELSE {"id", "title", "permalink", "thumbnail", "category_id",
                       "domain_id"},
     id |-> <<category_id, n>>, title |-> "t", permalink |-> "p",
     thumbnail |-> "th", category_id |-> category_id, domain_id |-> domain]

\* The domain of the n-th result of a results array of a given pattern.
PatternDomain(pattern, n) ==
    CASE pattern = "blenders" -> "MLA-BLENDERS"
      [] pattern = "mixer-first" ->
            IF n = 1 THEN "MLA-MIXERS" ELSE "MLA-BLENDERS"
      [] OTHER -> IF n = 1 THEN "" ELSE "MLA-MIXERS"

Patterns == {"blenders", "mixer-first", "bare-first"}

Body(category_id, len, pattern) ==
    [n \in 1..len |-> RawResult(category_id, n, PatternDomain(pattern, n))]

\* The results arrays the marketplace answers with, per category id.
SampleBodies ==
    [c \in CategoryIds |-> {Body(c, len, p) : len \in {0, 2}, p \in Patterns}]

FullBodies ==
    [c \in CategoryIds |->
        {Body(c, len, p) : len \in 0..MaxResults, p \in Patterns}]

\* What requests.get can come back with: it raises, the body is no JSON, the
\* JSON has no "results", a result has no "id", or a results array.
ApiResponses(category_id, bodies) ==
    {[raises |-> TRUE, json |-> FALSE, keys |-> {}, results |-> <<>>],
     [raises |-> FALSE, json |-> FALSE, keys |-> {}, results |-> <<>>],
     [raises |-> FALSE, json |-> TRUE, keys |-> {"error"}, results |-> <<>>],
     [raises |-> FALSE, json |-> TRUE, keys |-> {"results"},
      results |-> <<[RawResult(category_id, 1, "") EXCEPT !.present = {}]>>]}
    \cup {[raises |-> FALSE, json |-> TRUE, keys |-> {"results"},
           results |-> b] : b \in bodies[category_id]}

\* Lines 122-132: the exception the call, r.json(), ["results"] or ["id"]
\* raises, "" when none does.
FetchException(r) ==
    IF r.raises THEN "ConnectionError"
    ELSE IF ~r.json THEN "JSONDecodeError"
    ELSE IF "results" \notin r.keys THEN "KeyError"
    ELSE IF \E k \in DOMAIN r.results : "id" \notin r.results[k].present
         THEN "KeyError"
    ELSE ""

\* Lines 125-132: result[key] if key in result else "".
Field(result, key) == IF key \in result.present THEN result[key] ELSE ""

Listing(result) ==
    [item_id |-> result.id,
     title |-> Field(result, "title"),
     permalink |-> Field(result, "permalink"),
     thumbnail |-> Field(result, "thumbnail"),
     category_id |-> Field(result, "category_id"),
     domain_id |-> Field(result, "domain_id")]

\* A fetch that keeps no batch for an empty results array.
AppendBatchUnlessEmpty(batches, category_id, results) ==
    IF results = <<>> THEN batches
    ELSE Append(batches, [category_id |-> category_id,
                          results |-> [k \in DOMAIN results |-> Listing(results[k])]])

\* Lines 134-137.
AppendBatch(batches, category_id, results) ==
    Append(batches, [category_id |-> category_id,
                     results |-> [k \in DOMAIN results |-> Listing(results[k])]])

----------------------------------------------------------------------------
\* Lines 141-155: the carousels

\* Line 146: the batches of the category's id.
BatchesFor(category, batches) ==
    SelectSeq(batches, LAMBDA x : x.category_id = category.category_id)

\* The cap applied before the domain filter.
CarouselItemsCappedFirst(category, results) ==
    SelectSeq(Take(results, ITEMS_BY_CAROUSEL),
              LAMBDA x : x.domain_id = category.domain_id)

\* Lines 144-147: the listings of the category's domain, capped.
CarouselItems(category, results) ==
    Take(SelectSeq(results, LAMBDA x : x.domain_id = category.domain_id),
         ITEMS_BY_CAROUSEL)

\* Lines 143-150: the carousel of one matched category.
Carousel(category, batches) ==
    [items |-> CarouselItems(category, BatchesFor(category, batches)[1].results),
     category_raw |-> category.category_raw,
     category_id |-> category.category_id,
     category_name |-> category.category_name,
     domain_id |-> category.domain_id,
     similarity_score |-> category.similarity_score]

\* The carousels built batch by batch: those of the first fetched id first.
CarouselsGroupedByBatch(cats, batches) ==
    LET G[j \in 0..Len(batches)] ==
            IF j = 0 THEN <<>>
            ELSE G[j - 1] \o
                 SelectSeq(cats,
                           LAMBDA c : c.category_id = batches[j].category_id)
        ordered == G[Len(batches)]
    IN [k \in DOMAIN ordered |-> Carousel(ordered[k], batches)]

\* Lines 142-150.
Carousels(cats, batches) ==
    [k \in DOMAIN cats |-> Carousel(cats[k], batches)]

\* Line 155: the plan's categories of the carousel's name.
ProposalsFor(carousel, plan_categories) ==
    SelectSeq(plan_categories, LAMBDA x : x.name = carousel.category_raw)

\* The questions of the plan's first category, whatever its name.
QuestionsOfFirstProposal(carousel, plan_categories) ==
    plan_categories[1].questions

\* The questions of the last category of the carousel's name.
QuestionsOfLastProposal(carousel, plan_categories) ==
    LET same == ProposalsFor(carousel, plan_categories)
    IN same[Len(same)].questions

\* Line 155: the questions of the first of them.
QuestionsFor(carousel, plan_categories) ==
    ProposalsFor(carousel, plan_categories)[1].questions

----------------------------------------------------------------------------
\* The request

Indexes == [ProposalNames -> {<<>>} \cup {<<k>> : k \in TaxonomyKeys}]

\* The indexes in which every query has a well-formed nearest document.
FullIndexes ==
    [ProposalNames -> {<<k>> : k \in {t \in TaxonomyKeys : Taxonomy(t).lines = 8}}]

NoPlan == [message |-> "", categories |-> <<>>]

Start ==
    /\ pc = "idle"
    /\ error = <<>>
    /\ response = <<>>
    /\ response_dict = NoPlan
    /\ i = 1
    /\ categories = <<>>
    /\ fetch_queue = <<>>
    /\ search_results = <<>>
    /\ carousels = <<>>
    /\ returned = <<>>
    /\ vs_queries = <<>>
    /\ api_calls = <<>>

Init == nearest \in Indexes /\ Start

InitItems == nearest \in FullIndexes /\ Start

Fail(step, exc) ==
    /\ pc' = "failed"
    /\ error' = <<step, exc>>

\* main.py:14-19: the payload's "message" is handed to BuyAssistant.chat.
HandleChat ==
    /\ pc = "idle"
    /\ \E data \in {[keys |-> {"message"}], [keys |-> {}]} :
          IF "message" \in data.keys
          THEN pc' = "plan" /\ error' = error
          ELSE Fail("handler", "KeyError")
    /\ UNCHANGED <<nearest, response, response_dict, i, categories, fetch_queue,
                   search_results, carousels, returned, vs_queries, api_calls>>

\* Lines 86-99.  A plan without categories skips both loops.
CallPlanner(replies) ==
    /\ pc = "plan"
    /\ \E reply \in replies :
          IF reply.raises
          THEN /\ Fail("plan", "OpenAIError")
               /\ UNCHANGED <<response, response_dict>>
          ELSE /\ response' = <<reply>>
               /\ IF Parse(reply).ok
                  THEN /\ response_dict' = obj_to_dict(Parse(reply).value)
                       /\ pc' = IF Len(Names(response_dict')) = 0
                                THEN AfterMatch(<<>>) ELSE "match"
                       /\ error' = error
                  ELSE /\ Fail("plan", Parse(reply).exc)
                       /\ UNCHANGED response_dict
    /\ UNCHANGED <<nearest, i, categories, fetch_queue, search_results,
                   carousels, returned, vs_queries, api_calls>>

\* Lines 104-115, and line 119 after the last iteration.  The warning of
\* line 115 passes an argument its message has no place for; logging reports
\* that on stderr and the loop goes on.
MatchCategory ==
    /\ pc = "match"
    /\ \E embedded \in BOOLEAN :
       LET category == Names(response_dict)[i]
           attempt == TryResolve(category, embedded)
           cats == IF attempt.ok THEN Append(categories, attempt.value)
                   ELSE categories
       IN /\ vs_queries' = Append(vs_queries, category)
          /\ IF attempt.ok \/ CaughtInMatch(attempt.exc)
             THEN /\ categories' = cats
                  /\ i' = i + 1
                  /\ error' = error
                  /\ IF i = Len(Names(response_dict))
                     THEN \E order \in IterationOrders(cats) :
                             /\ fetch_queue' = order
                             /\ pc' = AfterMatch(order)
                     ELSE pc' = "match" /\ fetch_queue' = fetch_queue
             ELSE /\ Fail("match", attempt.exc)
                  /\ UNCHANGED <<categories, i, fetch_queue>>
    /\ UNCHANGED <<nearest, response, response_dict, search_results, carousels,
                   returned, api_calls>>

\* Lines 121-137: the search of the next category id.
FetchListings(bodies) ==
    /\ pc = "fetch"
    /\ LET category_id == Head(fetch_queue) IN
       \E r \in ApiResponses(category_id, bodies) :
          /\ api_calls' = Append(api_calls,
                [category_id |-> category_id, ok |-> FetchException(r) = ""])
          /\ IF FetchException(r) = ""
             THEN /\ search_results' =
                        AppendBatch(search_results, category_id, r.results)
                  /\ fetch_queue' = Tail(fetch_queue)
                  /\ pc' = IF Tail(fetch_queue) = <<>> THEN "build" ELSE "fetch"
                  /\ error' = error
             ELSE /\ Fail("fetch", FetchException(r))
                  /\ UNCHANGED <<search_results, fetch_queue>>
    /\ UNCHANGED <<nearest, response, response_dict, i, categories, carousels,
                   returned, vs_queries>>

\* Lines 141-150: [0] of an empty list raises IndexError.
BuildCarousels ==
    /\ pc = "build"
    /\ IF \E k \in DOMAIN categories :
             BatchesFor(categories[k], search_results) = <<>>
       THEN Fail("build", "IndexError") /\ UNCHANGED carousels
       ELSE /\ carousels' = Carousels(categories, search_results)
            /\ pc' = "join"
            /\ error' = error
    /\ UNCHANGED <<nearest, response, response_dict, i, categories, fetch_queue,
                   search_results, returned, vs_queries, api_calls>>

\* Lines 154-160, and main.py:19 returning the dict to the caller.
JoinQuestions ==
    /\ pc = "join"
    /\ IF \E k \in DOMAIN carousels :
             ProposalsFor(carousels[k], response_dict.categories) = <<>>
       THEN Fail("join", "IndexError") /\ UNCHANGED <<carousels, returned>>
       ELSE /\ carousels' =
                 [k \in DOMAIN carousels |->
                    carousels[k] @@
                    ("questions" :>
                        QuestionsFor(carousels[k], response_dict.categories))]
            /\ returned' = <<[message |-> response_dict.message,
                              carousels |-> carousels']>>
            /\ pc' = "done"
            /\ error' = error
    /\ UNCHANGED <<nearest, response, response_dict, i, categories, fetch_queue,
                   search_results, vs_queries, api_calls>>

Next ==
    \/ HandleChat
    \/ CallPlanner(PlanReplies)
    \/ MatchCategory
    \/ FetchListings(SampleBodies)
    \/ BuildCarousels
    \/ JoinQuestions

Spec == Init /\ [][Next]_vars

NextItems ==
    \/ HandleChat
    \/ CallPlanner(ItemReplies)
    \/ MatchCategory
    \/ FetchListings(FullBodies)
    \/ BuildCarousels
    \/ JoinQuestions

SpecItems == InitItems /\ [][NextItems]_vars

----------------------------------------------------------------------------
\* What the properties speak of

Plan == response_dict.categories

Returned == returned[1].carousels

\* The index has a document for the name, with every field the match reads.
Resolves(name) ==
    /\ nearest[name] # <<>>
    /\ Taxonomy(nearest[name][1]).lines = 8

\* The plan's proposals that match, in plan order.
MatchedProposals == SelectSeq(Plan, LAMBDA p : Resolves(p.name))

EntryOf(name) == Taxonomy(nearest[name][1])

\* The request is over: a response was returned, or an exception left chat.
Ended == pc \in {"done", "failed"}

\* The matching loop is over.
Matched == pc \in {"fetch", "build", "join", "done"}
           \/ (pc = "failed" /\ error[1] \in {"fetch", "build", "join"})

FailedIds == {c.category_id : c \in {x \in Range(api_calls) : ~x.ok}}

FetchedIds == {c.category_id : c \in {x \in Range(api_calls) : x.ok}}

\* The positions of a batch whose listing is of the given domain.
DomainPositions(results, domain) ==
    {p \in DOMAIN results : results[p].domain_id = domain}

BatchOf(category_id) ==
    CHOOSE b \in Range(search_results) : b.category_id = category_id

----------------------------------------------------------------------------
\* C1: once the categories are matched, the request ends with a response
\* whose number of carousels is the number of matched categories minus the
\* number of matched categories whose listing search failed.
CarouselCountIsMatchedMinusFailed ==
    (Ended /\ Matched) =>
        /\ returned # <<>>
        /\ Len(Returned) =
              Len(categories)
              - Cardinality({k \in DOMAIN categories :
                                categories[k].category_id \in FailedIds})

\* C2: an empty search result drops its proposal and nothing else: its
\* IndexError never ends the request, every proposal of the plan is searched
\* before the listings are fetched, the matched categories are exactly the
\* proposals that match, and each of them has a carousel in the response.
EmptyMatchDropsOnlyThatProposal ==
    /\ pc = "failed" => error # <<"match", "IndexError">>
    /\ Matched =>
          /\ vs_queries = Names(response_dict)
          /\ [k \in DOMAIN categories |-> categories[k].category_raw]
                = [k \in DOMAIN MatchedProposals |-> MatchedProposals[k].name]
    /\ pc = "done" =>
          \A p \in Range(MatchedProposals) :
              \E c \in Range(Returned) : c.category_raw = p.name

\* C2 witness: a response with a carousel for a proposal that follows one
\* the index had nothing for.
WitnessMatchAfterEmpty ==
    /\ pc = "done"
    /\ \E j, k \in DOMAIN Plan :
          /\ j < k
          /\ nearest[Plan[j].name] = <<>>
          /\ Resolves(Plan[k].name)
    /\ Len(Returned) >= 1

\* C3: when a listing search has failed and another has succeeded, the
\* request still ends with a response, which holds a carousel for every
\* matched category whose search succeeded.
ListingFailureAffectsOnlyItsCategory ==
    (Ended /\ FailedIds # {} /\ FetchedIds # {}) =>
        /\ returned # <<>>
        /\ \A k \in DOMAIN categories :
              categories[k].category_id \in FetchedIds =>
                 \E c \in Range(Returned) :
                    c.category_raw = categories[k].category_raw

\* C4: the items of a carousel are the first min(ITEMS_BY_CAROUSEL, k) of the
\* k listings of its domain in the batch of its category id, in the batch's
\* order; all are of its domain and of that batch.
CarouselItemsAreCappedDomainFilter ==
    pc \in {"join", "done"} =>
        \A n \in DOMAIN carousels :
            LET c == carousels[n]
                results == BatchOf(c.category_id).results
                positions == DomainPositions(results, c.domain_id)
            IN /\ Len(c.items) = Min(ITEMS_BY_CAROUSEL, Cardinality(positions))
               /\ \A j \in DOMAIN c.items :
                     /\ \E p \in positions :
                           /\ Cardinality({q \in positions : q <= p}) = j
                           /\ c.items[j] = results[p]
                     /\ c.items[j].domain_id = c.domain_id
                     /\ c.items[j].item_id[1] = c.category_id

\* C4 witness: a response of two batches in which a carousel was capped and
\* skipped a listing of another domain that came first.
WitnessCappedAndFiltered ==
    /\ pc = "done"
    /\ Len(search_results) = 2
    /\ \E c \in Range(Returned) :
          LET results == BatchOf(c.category_id).results
          IN /\ Len(c.items) = ITEMS_BY_CAROUSEL
             /\ Cardinality(DomainPositions(results, c.domain_id))
                   > ITEMS_BY_CAROUSEL
             /\ results[1].domain_id # c.domain_id

\* C5: the questions of a carousel are the questions of a proposal of the
\* plan whose name is the carousel's category_raw.
CarouselQuestionsComeFromNamedProposal ==
    pc = "done" =>
        \A c \in Range(Returned) :
            \E k \in DOMAIN Plan :
                /\ Plan[k].name = c.category_raw
                /\ Plan[k].questions = c.questions

\* C5 witness: a response with two carousels of different names and
\* different questions.
WitnessTwoQuestionLists ==
    /\ pc = "done"
    /\ \E c, d \in Range(Returned) :
          /\ c.category_raw # d.category_raw
          /\ c.questions # d.questions

\* C6: no category id is searched twice, none is searched that no proposal
\* matched, and before the carousels are built every matched id was searched.
OneListingSearchPerDistinctCategoryId ==
    LET matchedIds == {EntryOf(p.name).category_id : p \in Range(MatchedProposals)}
    IN /\ \A a, b \in DOMAIN api_calls :
             a # b => api_calls[a].category_id # api_calls[b].category_id
       /\ Matched =>
             \A a \in DOMAIN api_calls : api_calls[a].category_id \in matchedIds
       /\ ~Matched => api_calls = <<>>
       /\ pc \in {"build", "join", "done"} =>
             {api_calls[a].category_id : a \in DOMAIN api_calls} = matchedIds

\* C6 witness: a response of three carousels, two of one category id, after
\* two searches.
WitnessSharedCategoryId ==
    /\ pc = "done"
    /\ Len(Returned) = 3
    /\ Len(api_calls) = 2

\* C7: carousel n is the carousel of the n-th proposal that matches.
CarouselsFollowPlanOrder ==
    pc = "done" =>
        /\ Len(Returned) = Len(MatchedProposals)
        /\ \A n \in DOMAIN Returned :
              /\ Returned[n].category_raw = MatchedProposals[n].name
              /\ Returned[n].category_id
                    = EntryOf(MatchedProposals[n].name).category_id
              /\ Returned[n].domain_id
                    = EntryOf(MatchedProposals[n].name).domain_id

\* C7 witness: a response whose first and third carousel share a category id
\* that was searched after the id of the second.
WitnessInterleavedIds ==
    /\ pc = "done"
    /\ Len(Returned) = 3
    /\ Returned[1].category_id = Returned[3].category_id
    /\ Returned[1].category_id # Returned[2].category_id
    /\ search_results[1].category_id = Returned[2].category_id

\* The reply is JSON with both fields of the plan schema.
WellFormedPlan(reply) ==
    reply.json /\ "message" \in reply.keys /\ "categories" \in reply.keys

\* The planner was called, and raised or replied with something else than a
\* plan.
PlannerFailed ==
    /\ pc \notin {"idle", "plan"}
    /\ ~(pc = "failed" /\ error[1] = "handler")
    /\ (response = <<>> \/ ~WellFormedPlan(response[1]))

\* C8: after a planner failure the request has failed, nothing was searched
\* in the index or in the marketplace, and nothing was returned.
PlannerFailureFailsWholeRequest ==
    PlannerFailed =>
        /\ pc = "failed"
        /\ vs_queries = <<>>
        /\ api_calls = <<>>
        /\ returned = <<>>

\* C8 witness: the request has failed on a reply that does not parse.
WitnessUnparsedReply ==
    /\ pc = "failed"
    /\ error = <<"plan", "OutputParserException">>
    /\ response # <<>>

\* C9: when the carousels are built every matched category has a batch,
\* when the questions are joined every carousel has a proposal of its name,
\* and the request never fails in either step.
LookupsAlwaysSucceed ==
    /\ pc = "build" =>
          \A k \in DOMAIN categories :
              \E b \in Range(search_results) :
                  b.category_id = categories[k].category_id
    /\ pc = "join" =>
          \A k \in DOMAIN carousels :
              \E p \in Range(Plan) : p.name = carousels[k].category_raw
    /\ pc = "failed" => error[1] \notin {"build", "join"}

\* C9 witness: the questions are about to be joined to a carousel whose
\* batch is empty, and to two carousels that share a batch.
WitnessLookupsDone ==
    /\ pc = "join"
    /\ \E b \in Range(search_results) : b.results = <<>>
    /\ Len(search_results) < Len(carousels)

\* C10: the proposals of a matched name that the plan holds twice or more
\* have a carousel each, all with the questions of the first of them.
SameNamedProposalsShareFirstQuestions ==
    pc = "done" =>
        \A name \in ProposalNames :
            LET same == {k \in DOMAIN Plan : Plan[k].name = name}
                first == CHOOSE k \in same : \A m \in same : k <= m
                own == {n \in DOMAIN Returned : Returned[n].category_raw = name}
            IN (Cardinality(same) >= 2 /\ Resolves(name)) =>
                  /\ Cardinality(own) = Cardinality(same)
                  /\ \A n \in own : Returned[n].questions = Plan[first].questions

\* C10 witness: a response for a plan that holds a matched name twice with
\* different questions.
WitnessSameNameTwice ==
    /\ pc = "done"
    /\ \E j, k \in DOMAIN Plan :
          /\ j < k
          /\ Plan[j].name = Plan[k].name
          /\ Plan[j].questions # Plan[k].questions
          /\ Resolves(Plan[j].name)

====
